---- MODULE Spec2Model ----
(***************************************************************************)
(* maplibre-rs: the view-driven tile request coordinator (RequestStage),   *)
(* the asynchronous procedure `schedule` and the tile pipelines it runs.   *)
(***************************************************************************)
EXTENDS Integers, Sequences, FiniteSets, TLC

VARIABLES
    camera,      \* view_state: current camera position (tile column looked at)
    zoom,        \* view_state: current zoom level
    refCamera,   \* view_state: camera at the last update_references()
    refZoom,     \* view_state: zoom at the last update_references()
    style,       \* Style: the list of style layers
    repo,        \* TileRepository: number of entries held per coordinate
    submitted,   \* requests handed to the dispatcher (apc.call), per coordinate
    trace,       \* repository / dispatcher operations of the last RequestStage::run
    ticks,       \* number of RequestStage::run calls so far
    queue,       \* dispatcher: the inputs of apc.call not yet picked up, in order
    raster,      \* build configuration: cfg(feature = "raster")
    input,       \* the Input the procedure was called with
    fetched,     \* what client.fetch resolves to for this unit of work
    sink,        \* which send of the unit fails (channel closed); 0: none does
    chan,        \* messages sent by the unit of work, in order
    invoked,     \* layer names the unit of work ran the tessellator on, in order
    result,      \* what the procedure returned to the dispatcher
    pc,          \* position of the unit of work
    threaded,    \* dispatcher substrate: thread pool (TRUE) or cooperative scheduler
    units,       \* dispatcher: the units of work running side by side
    channel,     \* the message channel shared by those units, in arrival order
    closed       \* the receiving side of the channel is gone

coordVars == <<camera, zoom, refCamera, refZoom, style, repo, submitted, trace, ticks, queue>>
procVars == <<raster, input, fetched, sink, chan, invoked, result, pc>>
unitVars == <<threaded, units, channel, closed>>
vars == <<coordVars, procVars, unitVars>>

None == "None"

----------------------------------------------------------------------------
(* Bounds                                                                  *)

MaxTicks == 3
MaxEntries == 3
MaxTileLayers == 2

----------------------------------------------------------------------------
(* View state, coordinates, style                                          *)

WorldColumns == -1 .. 2
Cameras == {-1, 0, 1, 2}
Zooms == {0, 1, 2}
QuadKeyLevels == {0, 1}
LayerNames == {"water", "roads"}

RECURSIVE Pow2(_)
Pow2(n) == IF n = 0 THEN 1 ELSE 2 * Pow2(n - 1)

\* WorldTileCoords <<x, y, z>>
AllCoords == {<<x, 0, z>> : x \in WorldColumns, z \in Zooms}

\* WorldTileCoords::build_quad_key(): Some only on a level that has quad keys
\* and inside that level's grid.
build_quad_key(coords) ==
    IF /\ coords[3] \in QuadKeyLevels
       /\ coords[1] >= 0 /\ coords[1] < Pow2(coords[3])
       /\ coords[2] >= 0 /\ coords[2] < Pow2(coords[3])
    THEN <<"key", coords>>
    ELSE None

ValidCoords == {c \in AllCoords : build_quad_key(c) # None}

\* ViewState::create_view_region(): None when the view has no bounding box
\* inside the world, else the visible coordinates in iteration order.
create_view_region(cam, z) ==
    IF cam + 1 \notin WorldColumns THEN None
    ELSE << <<cam, 0, z>>, <<cam + 1, 0, z>> >>

did_camera_change == camera # refCamera
did_zoom_change == zoom # refZoom

Styles ==
    { << [source_layer |-> "water"], [source_layer |-> None],
         [source_layer |-> "roads"], [source_layer |-> "water"] >>,
      << [source_layer |-> None], [source_layer |-> "roads"] >> }

----------------------------------------------------------------------------
(* Tile repository                                                         *)

\* TileRepository::has_tile
has_tile(r, coords) == r[coords] > 0

\* TileRepository::create_tile: inserts, without deduplicating
create_tile(r, coords) == [r EXCEPT ![coords] = @ + 1]

----------------------------------------------------------------------------
(* RequestStage                                                            *)

\* Input::TileRequest(TileRequest { coords, layers: layers.clone() })
TileRequest(coords, layers) == [coords |-> coords, layers |-> layers]

\* request_stage.rs:160  if tile_repository.has_tile(&coords)
request_tile_guard(r, coords) == has_tile(r, coords)

\* request_tile submitting to the dispatcher before inserting the entry.
request_tile_call_first(st, coords, layers) ==
    LET checked == Append(st.trace, [op |-> "has_tile", coords |-> coords,
                                     found |-> has_tile(st.repo, coords)])
    IN  IF request_tile_guard(st.repo, coords)
        THEN [repo |-> create_tile(st.repo, coords),
              submitted |-> [st.submitted EXCEPT ![coords] = @ + 1],
              queue |-> Append(st.queue, TileRequest(coords, layers)),
              trace |-> checked \o
                  << [op |-> "call", coords |-> coords, layers |-> layers,
                      entry |-> has_tile(st.repo, coords)],
                     [op |-> "create_tile", coords |-> coords] >>]
        ELSE [st EXCEPT !.trace = checked]

\* request_tile without the repository check.
request_tile_unguarded(st, coords, layers) ==
    LET checked == Append(st.trace, [op |-> "has_tile", coords |-> coords,
                                     found |-> has_tile(st.repo, coords)])
        created == create_tile(st.repo, coords)
    IN  [repo |-> created,
         submitted |-> [st.submitted EXCEPT ![coords] = @ + 1],
         queue |-> Append(st.queue, TileRequest(coords, layers)),
         trace |-> checked \o
             << [op |-> "create_tile", coords |-> coords],
                [op |-> "call", coords |-> coords, layers |-> layers,
                 entry |-> has_tile(created, coords)] >>]

\* RequestStage::request_tile. st = [repo, submitted, queue, trace]; every "call"
\* records whether the repository holds the coordinate at that moment.
request_tile(st, coords, layers) ==
    LET checked == Append(st.trace, [op |-> "has_tile", coords |-> coords,
                                     found |-> has_tile(st.repo, coords)])
        created == create_tile(st.repo, coords)
    IN  IF request_tile_guard(st.repo, coords)
        THEN [repo |-> created,
              submitted |-> [st.submitted EXCEPT ![coords] = @ + 1],
              queue |-> Append(st.queue, TileRequest(coords, layers)),
              trace |-> checked \o
                  << [op |-> "create_tile", coords |-> coords],
                     [op |-> "call", coords |-> coords, layers |-> layers,
                      entry |-> has_tile(created, coords)] >>]
        ELSE [st EXCEPT !.trace = checked]

\* The source layer of every style layer, named or not.
source_layers_unfiltered(s) == {s[i].source_layer : i \in 1 .. Len(s)}

\* style.layers.iter().filter_map(|layer| layer.source_layer.clone()).collect()
source_layers(s) ==
    {s[i].source_layer : i \in {j \in 1 .. Len(s) : s[j].source_layer # None}}

RECURSIVE request_each(_, _, _, _)
request_each(st, region, i, layers) ==
    IF i > Len(region) THEN st
    ELSE request_each(
             IF build_quad_key(region[i]) # None
             THEN request_tile(st, region[i], layers)
             ELSE st,
             region, i + 1, layers)

\* RequestStage::request_tiles_in_view
request_tiles_in_view(st, s, view_region) ==
    request_each(st, view_region, 1, source_layers(s))

\* RequestStage::run without the camera / zoom change test.
run_pass_always(st, s, cam, z, changed) ==
    LET view_region == create_view_region(cam, z)
    IN  IF view_region # None
        THEN request_tiles_in_view(st, s, view_region)
        ELSE st

\* The body of RequestStage::run before update_references().
run_pass(st, s, cam, z, changed) ==
    LET view_region == create_view_region(cam, z)
    IN  IF changed /\ view_region # None
        THEN request_tiles_in_view(st, s, view_region)
        ELSE st

\* RequestStage::run: one coordinator tick.
Run ==
    LET st0 == [repo |-> repo, submitted |-> submitted, queue |-> queue, trace |-> << >>]
        st1 == run_pass(st0, style, camera, zoom,
                        did_camera_change \/ did_zoom_change)
    IN  /\ ticks < MaxTicks
        /\ \A c \in AllCoords : st1.repo[c] <= MaxEntries
        /\ repo' = st1.repo
        /\ submitted' = st1.submitted
        /\ trace' = st1.trace
        /\ queue' = st1.queue
        /\ refCamera' = camera
        /\ refZoom' = zoom
        /\ ticks' = ticks + 1
        /\ UNCHANGED <<camera, zoom, style, procVars, unitVars>>

\* The input controller moves the camera between frames.
MoveCamera ==
    /\ \E cam \in Cameras \ {camera} : camera' = cam
    /\ UNCHANGED <<zoom, refCamera, refZoom, style, repo, submitted, trace, ticks, queue,
                   procVars, unitVars>>

\* The input controller changes the zoom between frames.
ChangeZoom ==
    /\ \E z \in Zooms \ {zoom} : zoom' = z
    /\ UNCHANGED <<camera, refCamera, refZoom, style, repo, submitted, trace, ticks, queue,
                   procVars, unitVars>>

----------------------------------------------------------------------------
(* Inputs of one unit of work                                              *)

\* A layer of a decoded geozero::mvt::Tile: its name, whether the
\* tessellator and the indexer succeed on it.
TileLayers == [name : LayerNames, tess : BOOLEAN, index : BOOLEAN]

\* Decoded vector tiles: any list of layers (names may repeat).
Tiles == UNION {[1 .. n -> TileLayers] : n \in 0 .. MaxTileLayers}

\* Fetched bytes, by what each decoder makes of them: wellformed and mvt are
\* the outcome of Tile::decode, image that of image::load_from_memory.
Payloads ==
    [wellformed : {TRUE}, mvt : Tiles, image : BOOLEAN]
        \cup [wellformed : {FALSE}, mvt : {<< >>}, image : BOOLEAN]

NoPayload == [wellformed |-> FALSE, mvt |-> << >>, image |-> FALSE]

\* What client.fetch(..).await resolves to.
FetchResults ==
    [state : {"ok"}, data : Payloads] \cup {[state |-> "err", data |-> NoPayload]}

FetchPending == [state |-> "pending", data |-> NoPayload]

\* The orders in which a HashSet holding `set` may iterate.
Orders(set) ==
    {o \in [1 .. Cardinality(set) -> set] : \A e \in set : \E i \in DOMAIN o : o[i] = e}

ReqCoords == {<<0, 0, 0>>, <<1, 0, 1>>}

\* Input::TileRequest(TileRequest {coords, layers}); iter is the iteration
\* order of the layers HashSet.
TileRequests ==
    UNION {[kind : {"TileRequest"}, coords : ReqCoords, layers : {ls}, iter : Orders(ls)] :
               ls \in SUBSET LayerNames}

NoRequest == [kind |-> "Other", coords |-> <<0, 0, 0>>, layers |-> {}, iter |-> << >>]

Inputs == TileRequests \cup {NoRequest}

\* One more send than any run makes.
SinkFailures == 0 .. (MaxTileLayers + Cardinality(LayerNames) + 3)

----------------------------------------------------------------------------
(* Messages and the sink                                                   *)

LayerUnavailable(coords, name) ==
    [type |-> "layer_unavailable", coords |-> coords, layer |-> name]
LayerReady(coords, name) ==
    [type |-> "layer_ready", coords |-> coords, layer |-> name]
LayerRasterFinished(coords, name) ==
    [type |-> "layer_raster_finished", coords |-> coords, layer |-> name]
IndexingFinished(coords) ==
    [type |-> "indexing_finished", coords |-> coords, layer |-> None]
TileFinishedMsg(coords) ==
    [type |-> "tile_finished", coords |-> coords, layer |-> None]

\* A run in progress: status "run" | "error" (a sink call returned Err) |
\* "panic"; chan the messages sent so far; failAt the send that fails; tess
\* the layers handed to the tessellator so far.
NewRun(failAt) == [status |-> "run", chan |-> << >>, failAt |-> failAt, tess |-> << >>]

\* A send whose failure is dropped.
send_unchecked(r, msg) ==
    IF r.status # "run" THEN r
    ELSE IF r.failAt # 0 /\ Len(r.chan) + 1 >= r.failAt
         THEN r
         ELSE [r EXCEPT !.chan = Append(@, msg)]

\* context.send / a processor call followed by `?`
send(r, msg) ==
    IF r.status # "run" THEN r
    ELSE IF r.failAt # 0 /\ Len(r.chan) + 1 >= r.failAt
         THEN [r EXCEPT !.status = "error"]
         ELSE [r EXCEPT !.chan = Append(@, msg)]

----------------------------------------------------------------------------
(* Pipeline stages (tile_pipelines.rs)                                     *)

\* ParseTile::process: Tile::decode(..).expect("failed to load tile")
ParseTile(req, data, r) ==
    IF r.status # "run" THEN r
    ELSE IF ~data.wellformed THEN [r EXCEPT !.status = "panic"] ELSE r

\* A filter that lets every layer of the tile through.
contains_any(req, name) == TRUE

\* tile_pipelines.rs:85  tile_request.layers.contains(&layer.name)
contains(req, name) == name \in req.layers

RECURSIVE tessellate_each(_, _, _, _)
tessellate_each(req, tile, i, r) ==
    IF i > Len(tile) \/ r.status # "run" THEN r
    ELSE tessellate_each(req, tile, i + 1,
             IF ~contains(req, tile[i].name) THEN r
             ELSE LET t == [r EXCEPT !.tess = Append(@, tile[i].name)]
                  IN  IF ~tile[i].tess
                      THEN send(t, LayerUnavailable(req.coords, tile[i].name))
                      ELSE send(t, LayerReady(req.coords, tile[i].name)))

\* TessellateLayer::process
TessellateLayer(req, data, r) ==
    IF r.status # "run" THEN r ELSE tessellate_each(req, data.mvt, 1, r)

\* A reconcile loop that stops after the first missing layer it meets.
unavailable_each_first_only(req, available, i, r) ==
    LET missing == SelectSeq(req.iter, LAMBDA n : n \notin available)
    IN  IF missing = << >> \/ r.status # "run" THEN r
        ELSE send(r, LayerUnavailable(req.coords, missing[1]))

RECURSIVE unavailable_each(_, _, _, _)
unavailable_each(req, available, i, r) ==
    IF i > Len(req.iter) \/ r.status # "run" THEN r
    ELSE unavailable_each(req, available, i + 1,
             IF req.iter[i] \in available THEN r
             ELSE send(r, LayerUnavailable(req.coords, req.iter[i])))

\* The reconcile stage reporting every requested layer, present or not.
TessellateLayerUnavailable_all(req, data, r) ==
    IF r.status # "run" THEN r ELSE unavailable_each(req, {}, 1, r)

\* TessellateLayerUnavailable::process
TessellateLayerUnavailable(req, data, r) ==
    IF r.status # "run" THEN r
    ELSE LET available_layers == {data.mvt[i].name : i \in 1 .. Len(data.mvt)}
         IN  unavailable_each(req, available_layers, 1, r)

\* IndexLayer::process: layer.process(&mut index).unwrap() for every layer,
\* then layer_indexing_finished
IndexLayer(req, data, r) ==
    IF r.status # "run" THEN r
    ELSE IF \E i \in 1 .. Len(data.mvt) : ~data.mvt[i].index
         THEN [r EXCEPT !.status = "panic"]
         ELSE send(r, IndexingFinished(req.coords))

\* TileFinished::process
TileFinished(req, data, r) ==
    IF r.status # "run" THEN r ELSE send(r, TileFinishedMsg(req.coords))

\* RasterLayer::process: image::load_from_memory(&data).unwrap(), then
\* layer_raster_finished
RasterLayer(req, data, r) ==
    IF r.status # "run" THEN r
    ELSE IF ~data.image THEN [r EXCEPT !.status = "panic"]
         ELSE send(r, LayerRasterFinished(req.coords, "raster"))

\* The step of a pipeline named `stage`.
step(stage, req, data, r) ==
    CASE stage = "ParseTile" -> ParseTile(req, data, r)
      [] stage = "TessellateLayer" -> TessellateLayer(req, data, r)
      [] stage = "TessellateLayerUnavailable" -> TessellateLayerUnavailable(req, data, r)
      [] stage = "IndexLayer" -> IndexLayer(req, data, r)
      [] stage = "TileFinished" -> TileFinished(req, data, r)
      [] stage = "RasterLayer" -> RasterLayer(req, data, r)

\* DataPipeline::process: the step, `?`, then the next step; PipelineEnd
\* returns its input.
RECURSIVE process(_, _, _, _, _)
process(pipeline, i, req, data, r) ==
    IF i > Len(pipeline) \/ r.status # "run" THEN r
    ELSE process(pipeline, i + 1, req, data, step(pipeline[i], req, data, r))

\* The vector pipeline with the index stage right after the parse stage.
build_vector_tile_pipeline_index_first ==
    <<"ParseTile", "IndexLayer", "TessellateLayer", "TessellateLayerUnavailable",
      "TileFinished">>

build_vector_tile_pipeline ==
    <<"ParseTile", "TessellateLayer", "TessellateLayerUnavailable", "IndexLayer",
      "TileFinished">>

\* The raster pipeline without its closing stage.
build_raster_tile_pipeline_unfinished == <<"RasterLayer">>

build_raster_tile_pipeline == <<"RasterLayer", "TileFinished">>

----------------------------------------------------------------------------
(* The procedure `schedule` (request_stage.rs)                             *)

RECURSIVE unavailable_all(_, _, _)
unavailable_all(req, i, r) ==
    IF i > Len(req.iter) \/ r.status # "run" THEN r
    ELSE unavailable_all(req, i + 1, send(r, LayerUnavailable(req.coords, req.iter[i])))

\* The Err arm also reporting the tile as finished.
on_fetch_error_finishes(req, r) ==
    send(unavailable_all(req, 1, r), TileFinishedMsg(req.coords))

\* The Err(e) arm of the match on client.fetch(..).await
on_fetch_error(req, r) == unavailable_all(req, 1, r)

\* The Ok(data) arm of the match on client.fetch(..).await
on_fetch_ok(isRaster, req, data, r) ==
    process(IF isRaster THEN build_raster_tile_pipeline ELSE build_vector_tile_pipeline,
            1, req, data, r)

\* A procedure that reports a failed fetch as its own failure.
procedure_result_fetch_fails(fetchOk, r) ==
    CASE r.status = "panic" -> "panic"
      [] r.status = "error" -> IF fetchOk THEN "Execution" ELSE "Send"
      [] OTHER -> IF fetchOk THEN "Ok" ELSE "Execution"

\* What the procedure returns for a finished run; in the Err arm a failed
\* send is ProcedureError::Send, in the Ok arm a pipeline error is
\* ProcedureError::Execution.
procedure_result(fetchOk, r) ==
    CASE r.status = "panic" -> "panic"
      [] r.status = "error" -> IF fetchOk THEN "Execution" ELSE "Send"
      [] OTHER -> "Ok"

\* schedule going on to the fetch whatever its input is.
ScheduleStart_any_input ==
    /\ pc = "called"
    /\ result' = result
    /\ pc' = "fetching"
    /\ UNCHANGED <<raster, input, fetched, sink, chan, invoked, coordVars, unitVars>>

\* schedule up to its first await: the let-else on the input, then fetch.
ScheduleStart ==
    /\ pc = "called"
    /\ IF input.kind # "TileRequest"
       THEN /\ result' = "IncompatibleInput"
            /\ pc' = "done"
       ELSE /\ result' = result
            /\ pc' = "fetching"
    /\ UNCHANGED <<raster, input, fetched, sink, chan, invoked, coordVars, unitVars>>

\* client.fetch resolves to Ok(data), one of `served`: the pipeline runs to
\* its end.
fetch_ok(served) ==
    /\ pc = "fetching"
    /\ \E f \in served :
           /\ f.state = "ok"
           /\ fetched' = f
           /\ LET r == on_fetch_ok(raster, input, f.data, NewRun(sink))
              IN  /\ chan' = r.chan
                  /\ invoked' = r.tess
                  /\ result' = procedure_result(TRUE, r)
    /\ pc' = "done"
    /\ UNCHANGED <<raster, input, sink, coordVars, unitVars>>

FetchOk == fetch_ok(FetchResults)

\* client.fetch resolves to Err(e): every requested layer is reported
\* unavailable.
FetchErr ==
    /\ pc = "fetching"
    /\ fetched' = [state |-> "err", data |-> NoPayload]
    /\ LET r == on_fetch_error(input, NewRun(sink))
       IN  /\ chan' = r.chan
           /\ invoked' = r.tess
           /\ result' = procedure_result(FALSE, r)
    /\ pc' = "done"
    /\ UNCHANGED <<raster, input, sink, coordVars, unitVars>>

\* The coordinator at rest while one unit of work is followed.
IdleCoord ==
    /\ camera = 0 /\ zoom = 0 /\ refCamera = 0 /\ refZoom = 0
    /\ style \in Styles
    /\ repo = [c \in AllCoords |-> 0]
    /\ submitted = [c \in AllCoords |-> 0]
    /\ trace = << >>
    /\ ticks = 0
    /\ queue = << >>

\* No units running side by side.
IdleUnits ==
    /\ threaded = FALSE
    /\ units = << >>
    /\ channel = << >>
    /\ closed = FALSE

\* One unit of work handed to the dispatcher, with any input, in either
\* build, with a channel that fails at any send or never.
InitPipe ==
    /\ IdleCoord
    /\ raster \in BOOLEAN
    /\ input \in Inputs
    /\ sink \in SinkFailures
    /\ fetched = FetchPending
    /\ chan = << >>
    /\ invoked = << >>
    /\ result = None
    /\ pc = "called"
    /\ IdleUnits

NextPipe == ScheduleStart \/ FetchOk \/ FetchErr

SpecPipe == InitPipe /\ [][NextPipe]_vars

----------------------------------------------------------------------------
(* The coordinator's specifications                                       *)

IdleProc ==
    /\ raster = FALSE
    /\ input = NoRequest
    /\ fetched = FetchPending
    /\ sink = 0
    /\ chan = << >>
    /\ invoked = << >>
    /\ result = None
    /\ pc = "idle"
    /\ IdleUnits

InitView ==
    /\ camera \in Cameras
    /\ zoom \in Zooms
    /\ refCamera \in Cameras
    /\ refZoom \in Zooms
    /\ style \in Styles
    /\ submitted = [c \in AllCoords |-> 0]
    /\ trace = << >>
    /\ ticks = 0
    /\ queue = << >>

\* Any prior repository state: at most one entry per coordinate, entries
\* only for coordinates that can be requested.
Init ==
    /\ InitView
    /\ \E present \in SUBSET ValidCoords :
           repo = [c \in AllCoords |-> IF c \in present THEN 1 ELSE 0]
    /\ IdleProc

\* The repository as constructed: empty.
InitEmpty ==
    /\ InitView
    /\ repo = [c \in AllCoords |-> 0]
    /\ IdleProc

Next == Run \/ MoveCamera \/ ChangeZoom

Spec == Init /\ [][Next]_vars

SpecEmpty == InitEmpty /\ [][Next]_vars

----------------------------------------------------------------------------
(* Coordinator and dispatcher together                                     *)

\* The dispatcher starts the procedure on the oldest request handed to
\* apc.call, once the unit of work before it has returned. The request's
\* layer set iterates in any order; the channel is open for the whole run or
\* closed from its first send on.
Dispatch ==
    /\ pc \in {"idle", "done"}
    /\ queue # << >>
    /\ \E o \in Orders(Head(queue).layers) :
           input' = [kind |-> "TileRequest", coords |-> Head(queue).coords,
                     layers |-> Head(queue).layers, iter |-> o]
    /\ queue' = Tail(queue)
    /\ sink' \in {0, 1}
    /\ fetched' = FetchPending
    /\ chan' = << >>
    /\ invoked' = << >>
    /\ result' = None
    /\ pc' = "called"
    /\ UNCHANGED <<camera, zoom, refCamera, refZoom, style, repo, submitted, trace, ticks,
                   raster, unitVars>>

\* A map on a fixed style whose repository holds the tiles of an earlier
\* view.
InitSys ==
    /\ Init
    /\ style = << [source_layer |-> None], [source_layer |-> "roads"] >>
    /\ camera = 0 /\ refCamera = 0
    /\ zoom = 1 /\ refZoom = 1

\* What the tile server of this map answers: bytes that do not decode, or a
\* tile with one roads layer.
ServedResults ==
    { [state |-> "ok", data |-> NoPayload],
      [state |-> "ok",
       data |-> [wellformed |-> TRUE, image |-> FALSE,
                 mvt |-> << [name |-> "roads", tess |-> TRUE, index |-> TRUE] >>]] }

FetchServed == fetch_ok(ServedResults)

NextSys ==
    \/ Run \/ MoveCamera \/ ChangeZoom
    \/ Dispatch \/ ScheduleStart \/ FetchServed \/ FetchErr

SpecSys == InitSys /\ [][NextSys]_vars

----------------------------------------------------------------------------
(* Coordinator claims                                                      *)

Range(seq) == {seq[i] : i \in 1 .. Len(seq)}

\* The tick about to run sees a changed camera or zoom.
Changed == did_camera_change \/ did_zoom_change

\* This step is one RequestStage::run.
TickStep == ticks' = ticks + 1

\* The coordinates the pass is to request: visible, with a quad key, not yet
\* in the repository.
Needed(c) ==
    /\ create_view_region(camera, zoom) # None
    /\ c \in Range(create_view_region(camera, zoom))
    /\ build_quad_key(c) # None
    /\ ~has_tile(repo, c)

\* C1: one coordinator pass on a tick where camera or zoom changed creates
\* an entry and submits one request for exactly the visible coordinates that
\* have a quad key and were not in the repository, and for no other.
C1_PassRequestsExactlyMissing ==
    [][(TickStep /\ Changed) =>
         \A c \in AllCoords :
             /\ repo'[c] = repo[c] + (IF Needed(c) THEN 1 ELSE 0)
             /\ submitted'[c] = submitted[c] + (IF Needed(c) THEN 1 ELSE 0)]_vars

C3_InsertBeforeSubmit ==
    \A i \in 1 .. Len(trace) :
        trace[i].op = "call" =>
            /\ trace[i].entry
            /\ i > 1
            /\ trace[i - 1] = [op |-> "create_tile", coords |-> trace[i].coords]

\* The last pass submitted a request.
C3_Witness == \E i \in 1 .. Len(trace) : trace[i].op = "call"

\* C4: a tick on which neither camera nor zoom changed creates no entry and
\* submits no request.
C4_StaticTickRequestsNothing ==
    [][(TickStep /\ ~Changed) =>
         /\ repo' = repo
         /\ submitted' = submitted
         /\ trace' = << >>]_vars

\* A static tick has just run over a region holding a requestable
\* coordinate that is in the repository.
C4_Witness ==
    /\ ticks >= 1
    /\ trace = << >>
    /\ ~Changed
    /\ create_view_region(camera, zoom) # None
    /\ \E c \in Range(create_view_region(camera, zoom)) :
           build_quad_key(c) # None /\ has_tile(repo, c)

----------------------------------------------------------------------------
(* Pipeline claims                                                         *)

\* The unit of work has returned (or died) on a tile request.
Done == pc = "done" /\ input.kind = "TileRequest"

\* A finished vector run whose fetch and decode succeeded and whose channel
\* never fails.
VectorRun ==
    /\ Done
    /\ ~raster
    /\ fetched.state = "ok"
    /\ fetched.data.wellformed
    /\ sink = 0

tile == fetched.data.mvt

IsPrefix(p, q) == Len(p) <= Len(q) /\ \A i \in 1 .. Len(p) : p[i] = q[i]

\* How many messages of chan satisfy Test.
Count(Test(_)) == Cardinality({i \in 1 .. Len(chan) : Test(chan[i])})

IsOutcome(m, name) ==
    /\ m.type \in {"layer_ready", "layer_unavailable"}
    /\ m.layer = name
    /\ m.coords = input.coords

\* The layers of the tile named `name`.
Named(name) == {i \in 1 .. Len(tile) : tile[i].name = name}

\* The events the tessellate stage is to emit: one per requested layer of
\* the tile, in tile order.
TessEvents ==
    LET wanted == SelectSeq(tile, LAMBDA l : l.name \in input.layers)
    IN  [i \in 1 .. Len(wanted) |->
            IF wanted[i].tess THEN LayerReady(input.coords, wanted[i].name)
            ELSE LayerUnavailable(input.coords, wanted[i].name)]

\* The events the reconcile stage is to emit: one per requested layer the
\* tile lacks.
MissingEvents ==
    LET missing == SelectSeq(input.iter, LAMBDA n : Named(n) = {})
    IN  [i \in 1 .. Len(missing) |-> LayerUnavailable(input.coords, missing[i])]

FetchFailed == Done /\ fetched.state = "err"

\* C6 as stated: after a failed fetch the messages are exactly one
\* layer_unavailable per requested layer and nothing else.
C6_FetchFailureExactlyAllUnavailable ==
    FetchFailed =>
        /\ Len(chan) = Cardinality(input.layers)
        /\ \A n \in input.layers :
               \E i \in 1 .. Len(chan) : chan[i] = LayerUnavailable(input.coords, n)

\* C6 amended: after a failed fetch every message is a layer_unavailable for
\* a requested layer with the request's coordinates, no layer is named
\* twice, and when no send fails every requested layer is named.
C6_FetchFailureOnlyUnavailable ==
    FetchFailed =>
        /\ \A i \in 1 .. Len(chan) :
               \E n \in input.layers : chan[i] = LayerUnavailable(input.coords, n)
        /\ \A i, j \in 1 .. Len(chan) : chan[i] = chan[j] => i = j
        /\ (result # "Send" => Len(chan) = Cardinality(input.layers))
        /\ (result = "Send" => Len(chan) < Cardinality(input.layers))

\* A failed fetch for two layers, both reported.
C6_Witness ==
    /\ FetchFailed
    /\ Cardinality(input.layers) = 2
    /\ Len(chan) = 2
    /\ result = "Ok"

\* C7 as stated: every requested layer gets exactly one outcome event.
C7_ExactlyOneOutcomePerLayer ==
    VectorRun =>
        \A n \in input.layers :
            /\ Count(LAMBDA m : IsOutcome(m, n)) = 1
            /\ (Named(n) = {} =>
                    Count(LAMBDA m : m = LayerUnavailable(input.coords, n)) = 1)
            /\ (Named(n) # {} =>
                    (Count(LAMBDA m : m = LayerUnavailable(input.coords, n)) = 1
                         <=> \E i \in Named(n) : ~tile[i].tess))

\* C7 amended: every requested layer gets one outcome event per layer of
\* that name in the tile (layer_unavailable for those whose tessellation
\* failed, layer_ready for the others), and exactly one layer_unavailable
\* when the tile has no layer of that name; never none.
C7_OneOutcomePerTileLayer ==
    VectorRun =>
        \A n \in input.layers :
            /\ Count(LAMBDA m : m = LayerReady(input.coords, n))
                   = Cardinality({i \in Named(n) : tile[i].tess})
            /\ Count(LAMBDA m : m = LayerUnavailable(input.coords, n))
                   = Cardinality({i \in Named(n) : ~tile[i].tess})
                         + (IF Named(n) = {} THEN 1 ELSE 0)
            /\ Count(LAMBDA m : IsOutcome(m, n)) >= 1

\* Request {water, roads}; the tile holds two layers named water, one of
\* which fails to tessellate, and no roads.
C7_Witness ==
    /\ VectorRun
    /\ input.layers = {"water", "roads"}
    /\ Len(tile) = 2
    /\ tile[1].name = "water" /\ tile[2].name = "water"
    /\ tile[1].tess /\ ~tile[2].tess
    /\ Count(LAMBDA m : IsOutcome(m, "water")) = 2
    /\ Count(LAMBDA m : IsOutcome(m, "roads")) = 1

\* C8: every run, vector or raster, whose fetch, decode and sink calls
\* succeed emits tile_finished exactly once, as its last event.
C8_TileFinishedOnceLast ==
    ( /\ Done
      /\ fetched.state = "ok"
      /\ sink = 0
      /\ IF raster THEN fetched.data.image ELSE fetched.data.wellformed )
    =>
        /\ Count(LAMBDA m : m = TileFinishedMsg(input.coords)) = 1
        /\ Count(LAMBDA m : m.type = "tile_finished") = 1
        /\ chan[Len(chan)] = TileFinishedMsg(input.coords)

\* C9: a run in which a requested layer fails to tessellate still reports
\* every requested layer, runs reconcile and finalize and ends with
\* tile_finished.
C9_TessellationFailureDoesNotAbort ==
    ( /\ VectorRun
      /\ \E i \in 1 .. Len(tile) : tile[i].name \in input.layers /\ ~tile[i].tess )
    =>
        /\ IsPrefix(TessEvents \o MissingEvents, chan)
        /\ Len(chan) > 0
        /\ chan[Len(chan)] = TileFinishedMsg(input.coords)

\* C10: a vector run on malformed bytes emits nothing and returns
\* ProcedureError::Execution.
C10_DecodeFailureReturnsExecution ==
    ( /\ Done
      /\ ~raster
      /\ fetched.state = "ok"
      /\ ~fetched.data.wellformed )
    =>
        /\ chan = << >>
        /\ result = "Execution"

\* C11: apart from malformed vector bytes, no outcome of the indexer, the
\* tessellator or the image decoder crashes the unit of work: the run
\* returns Ok or an error value.
C11_NoCollaboratorOutcomeCrashes ==
    ( /\ Done
      /\ ~(~raster /\ fetched.state = "ok" /\ ~fetched.data.wellformed) )
    => result \in {"Ok", "Execution", "Send"}

\* C17: the tessellator is never run on a layer of the tile that the request
\* does not name, and no layer_ready or layer_unavailable event names a layer
\* outside the request's layer set.
C17_UnrequestedLayersSkipped ==
    Done =>
        /\ \A i \in 1 .. Len(invoked) : invoked[i] \in input.layers
        /\ \A i \in 1 .. Len(chan) :
               chan[i].type \in {"layer_ready", "layer_unavailable"}
                   => chan[i].layer \in input.layers

\* A tile with a requested and a non-requested layer went through the whole
\* pipeline; the tessellator ran on the requested one only.
C17_Witness ==
    /\ VectorRun
    /\ result = "Ok"
    /\ input.layers = {"water"}
    /\ Len(tile) = 2 /\ tile[1].name = "roads" /\ tile[2].name = "water"
    /\ invoked = <<"water">>
    /\ Len(chan) = 3

\* A finished raster run whose fetch and image decode succeeded and whose
\* channel never fails.
RasterRun ==
    /\ Done
    /\ raster
    /\ fetched.state = "ok"
    /\ fetched.data.image
    /\ sink = 0

\* C19: a raster run whose decode and sends succeed emits exactly
\* layer_raster_finished for the request's coordinates with layer name
\* "raster", then tile_finished, and nothing else, whatever layers the
\* request names.
C19_RasterRunEmitsTwoEvents ==
    RasterRun =>
        /\ chan = << LayerRasterFinished(input.coords, "raster"),
                     TileFinishedMsg(input.coords) >>
        /\ chan[1].type = "layer_raster_finished"
        /\ chan[2].type = "tile_finished"
        /\ invoked = << >>
        /\ result = "Ok"

\* A raster run for a request naming two layers, over bytes that are an image
\* but no vector tile.
C19_Witness ==
    /\ RasterRun
    /\ input.layers = {"water", "roads"}
    /\ ~fetched.data.wellformed
    /\ Len(chan) = 2

\* The send that failed in a finished run, if any: the one after the last
\* message that went through.
SendFailed == sink = Len(chan) + 1

\* C20: a failed fetch whose layer_unavailable sends all succeed returns Ok;
\* the procedure returns IncompatibleInput only for an input that is no tile
\* request, Execution only for a pipeline error after a successful fetch and
\* Send only for a failed send after a failed fetch.
C20_FetchFailureReturnsOk ==
    pc = "done" =>
        /\ (FetchFailed /\ Len(chan) = Cardinality(input.layers) => result = "Ok")
        /\ (FetchFailed /\ ~SendFailed => result = "Ok")
        /\ (result = "IncompatibleInput" => input.kind # "TileRequest")
        /\ (result = "Execution" =>
                input.kind = "TileRequest" /\ fetched.state = "ok" /\ SendFailed)
        /\ (result = "Send" =>
                input.kind = "TileRequest" /\ fetched.state = "err" /\ SendFailed)

\* A failed fetch for two layers on a working channel returned Ok.
C20_Witness ==
    /\ FetchFailed
    /\ sink = 0
    /\ input.iter = <<"roads", "water">>
    /\ chan = << LayerUnavailable(input.coords, "roads"),
                 LayerUnavailable(input.coords, "water") >>
    /\ result = "Ok"

----------------------------------------------------------------------------
(* Units of work side by side on one channel                               *)

UnitIds == {1, 2}

\* The requests run side by side: both layers, in either iteration order.
UnitRequests ==
    {q \in TileRequests : q.layers = LayerNames}

\* What the fetch of a unit resolves to: an error, bytes that do not
\* decode, an empty tile, or a tile with one water layer.
UnitResults ==
    { [state |-> "err", data |-> NoPayload],
      [state |-> "ok", data |-> NoPayload],
      [state |-> "ok", data |-> [wellformed |-> TRUE, image |-> FALSE, mvt |-> << >>]],
      [state |-> "ok",
       data |-> [wellformed |-> TRUE, image |-> FALSE,
                 mvt |-> << [name |-> "water", tess |-> TRUE, index |-> TRUE] >>]] }

\* The match on client.fetch(..).await with a channel failing at send failAt.
unit_run(req, f, failAt) ==
    IF f.state = "ok"
    THEN on_fetch_ok(raster, req, f.data, NewRun(failAt))
    ELSE on_fetch_error(req, NewRun(failAt))

\* A unit of work that could be suspended before every send.
burst_one(isThreaded, rest) == 1

\* How many sends a unit makes before another unit can run: schedule has no
\* await after the fetch, so on the cooperative scheduler it runs to its
\* end; threads of a pool interleave at every send.
burst(isThreaded, rest) == IF isThreaded THEN 1 ELSE rest

\* schedule up to its await, for unit u.
UnitStart(u) ==
    /\ units[u].pc = "called"
    /\ units' = [units EXCEPT ![u].pc = "fetching"]
    /\ UNCHANGED <<threaded, channel, closed, coordVars, procVars>>

\* The fetch of unit u resolves.
UnitFetched(u) ==
    /\ units[u].pc = "fetching"
    /\ \E f \in UnitResults :
           units' = [units EXCEPT ![u].pc = "running", ![u].fetched = f]
    /\ UNCHANGED <<threaded, channel, closed, coordVars, procVars>>

\* Unit u runs on from where it is: its next sends, up to the first that
\* fails, and its return once nothing is left to send.
UnitSend(u) ==
    LET un == units[u]
        full == unit_run(un.req, un.fetched, 0)
        rest == Len(full.chan) - un.sent
        k == IF rest = 0 THEN 0 ELSE burst(threaded, rest)
    IN  /\ un.pc = "running"
        /\ IF rest > 0 /\ closed
           THEN /\ units' = [units EXCEPT
                      ![u].pc = "done",
                      ![u].failed = TRUE,
                      ![u].result =
                          procedure_result(un.fetched.state = "ok",
                                           unit_run(un.req, un.fetched, un.sent + 1))]
                /\ channel' = channel
           ELSE /\ channel' = channel \o
                      [i \in 1 .. k |-> [unit |-> u, msg |-> full.chan[un.sent + i]]]
                /\ units' = [units EXCEPT
                      ![u].sent = un.sent + k,
                      ![u].pc = IF k = rest THEN "done" ELSE "running",
                      ![u].result =
                          IF k = rest
                          THEN procedure_result(un.fetched.state = "ok", full)
                          ELSE un.result]
        /\ UNCHANGED <<threaded, closed, coordVars, procVars>>

\* The receiving side of the channel goes away.
CloseChannel ==
    /\ ~closed
    /\ closed' = TRUE
    /\ UNCHANGED <<threaded, units, channel, coordVars, procVars>>

\* Two requests handed to the dispatcher, on either substrate.
InitUnits ==
    /\ IdleCoord
    /\ raster = FALSE
    /\ input = NoRequest
    /\ fetched = FetchPending
    /\ sink = 0
    /\ chan = << >>
    /\ invoked = << >>
    /\ result = None
    /\ pc = "idle"
    /\ threaded \in BOOLEAN
    /\ \E reqs \in [UnitIds -> UnitRequests] :
           units = [u \in UnitIds |->
                       [req |-> reqs[u], pc |-> "called", fetched |-> FetchPending,
                        sent |-> 0, failed |-> FALSE, result |-> None]]
    /\ channel = << >>
    /\ closed = FALSE

NextUnits ==
    \/ \E u \in UnitIds : UnitStart(u)
    \/ \E u \in UnitIds : UnitFetched(u)
    \/ \E u \in UnitIds : UnitSend(u)
    \/ CloseChannel

SpecUnits == InitUnits /\ [][NextUnits]_vars

----------------------------------------------------------------------------
(* Coordinator claims, continued                                           *)

\* The names some layer of the style gives as its source layer.
StyleSourceLayers ==
    {n \in LayerNames : \E i \in 1 .. Len(style) : style[i].source_layer = n}

\* The requests submitted during the last pass.
Calls == SelectSeq(trace, LAMBDA e : e.op = "call")

\* C18: every request submitted during a pass carries the set of names that
\* some style layer gives as its source layer, the same set for every
\* coordinate of the pass; so does every request handed to the dispatcher.
C18_RequestLayersAreStyleSourceLayers ==
    /\ \A i \in 1 .. Len(Calls) : Calls[i].layers = StyleSourceLayers
    /\ \A i, j \in 1 .. Len(Calls) : Calls[i].layers = Calls[j].layers
    /\ \A i \in 1 .. Len(queue) : queue[i].layers = StyleSourceLayers

\* A pass submitted requests for two coordinates under a style with a layer
\* that has no source layer and two layers that share one.
C18_Witness ==
    /\ Len(Calls) = 2
    /\ Calls[1].coords # Calls[2].coords
    /\ Len(style) = 4
    /\ style[2].source_layer = None
    /\ style[1].source_layer = style[4].source_layer
    /\ Calls[1].layers = {"water", "roads"}

C16_VisibleCoordinateIsRequested ==
    \A i \in 1 .. Len(trace) :
        trace[i].op = "has_tile" => submitted[trace[i].coords] >= 1

----------------------------------------------------------------------------
(* Claims about units side by side                                         *)

\* The messages of unit u in the channel, in arrival order.
UnitMsgs(u) ==
    LET es == SelectSeq(channel, LAMBDA e : e.unit = u)
    IN  [i \in 1 .. Len(es) |-> es[i].msg]

\* What unit u sends when it runs alone on a channel that never fails.
Alone(u) ==
    IF units[u].fetched.state = "pending" THEN << >>
    ELSE unit_run(units[u].req, units[u].fetched, 0).chan

UnitDone(u) == units[u].pc = "done"

\* C12: a unit whose send failed has sent a proper prefix of its messages,
\* sends nothing afterwards and has returned Execution (fetch succeeded) or
\* Send (fetch failed); whatever the other unit did, every unit's messages
\* are a prefix of what it sends alone, and all of it once the unit has
\* returned without a failed send.
C12_SendFailureStopsTheRun ==
    /\ [](\A u \in UnitIds :
             /\ IsPrefix(UnitMsgs(u), Alone(u))
             /\ Len(UnitMsgs(u)) = units[u].sent
             /\ (units[u].failed =>
                    /\ UnitDone(u)
                    /\ Len(UnitMsgs(u)) < Len(Alone(u))
                    /\ units[u].result =
                           IF units[u].fetched.state = "ok" THEN "Execution" ELSE "Send")
             /\ (UnitDone(u) /\ ~units[u].failed =>
                    /\ UnitMsgs(u) = Alone(u)
                    /\ units[u].result \in {"Ok", "panic"}))
    /\ [][\A u \in UnitIds : units[u].failed => UnitMsgs(u)' = UnitMsgs(u)]_vars

\* Unit 1 was cut short by a failed send after its first message, in a
\* pipeline stage; unit 2 had returned Ok with all its messages.
C12_Witness ==
    /\ units # << >>
    /\ units[1].failed
    /\ units[1].sent = 1
    /\ units[1].result = "Execution"
    /\ UnitDone(2)
    /\ units[2].result = "Ok"
    /\ Len(UnitMsgs(2)) = 4

\* Two units that returned without a failed send, on the same coordinates,
\* the same layer set and the same fetch result.
SameInput(u, v) ==
    /\ UnitDone(u) /\ UnitDone(v)
    /\ ~units[u].failed /\ ~units[v].failed
    /\ units[u].req.coords = units[v].req.coords
    /\ units[u].req.layers = units[v].req.layers
    /\ units[u].fetched = units[v].fetched

\* How often message m occurs in sequence q.
Occurrences(q, m) == Cardinality({i \in 1 .. Len(q) : q[i] = m})

\* m reports as unavailable a layer that unit u requested and did not get:
\* any requested layer after a failed fetch, a layer the tile lacks
\* otherwise.
ReportsMissing(u, m) ==
    /\ m.type = "layer_unavailable"
    /\ m.layer \in units[u].req.layers
    /\ units[u].fetched.state = "ok" =>
           \A i \in 1 .. Len(units[u].fetched.data.mvt) :
               units[u].fetched.data.mvt[i].name # m.layer

\* C13 as stated: two runs on the same request and bytes send the same
\* messages in the same order.
C13_IdenticalInputIdenticalEvents ==
    \A u, v \in UnitIds : SameInput(u, v) => UnitMsgs(u) = UnitMsgs(v)

\* C13 amended: two runs on the same request and bytes send the same
\* messages the same number of times; the two sequences differ at most in
\* the order of the layer_unavailable messages for layers the request did
\* not get, and are identical when both runs iterate the request's layer
\* set in the same order.
C13_IdenticalInputSameEvents ==
    \A u, v \in UnitIds :
        SameInput(u, v) =>
            /\ Len(UnitMsgs(u)) = Len(UnitMsgs(v))
            /\ \A i \in 1 .. Len(UnitMsgs(u)) :
                   /\ Occurrences(UnitMsgs(u), UnitMsgs(u)[i])
                          = Occurrences(UnitMsgs(v), UnitMsgs(u)[i])
                   /\ UnitMsgs(u)[i] # UnitMsgs(v)[i] =>
                          /\ ReportsMissing(u, UnitMsgs(u)[i])
                          /\ ReportsMissing(v, UnitMsgs(v)[i])
            /\ (units[u].req.iter = units[v].req.iter => UnitMsgs(u) = UnitMsgs(v))

\* Two runs over the same empty tile for the same two layers, iterated in
\* opposite orders: four messages each, the first two swapped.
C13_Witness ==
    /\ units # << >>
    /\ SameInput(1, 2)
    /\ units[1].fetched.state = "ok"
    /\ units[1].fetched.data.wellformed
    /\ units[1].req.iter # units[2].req.iter
    /\ Len(UnitMsgs(1)) = 4
    /\ UnitMsgs(1)[1] = UnitMsgs(2)[2]
    /\ UnitMsgs(1)[2] = UnitMsgs(2)[1]
    /\ UnitMsgs(1)[1] # UnitMsgs(1)[2]

\* C14: on the cooperative scheduler the messages of a unit are contiguous
\* in the channel; on either substrate the messages of a unit arrive in the
\* order in which the unit sends them when it runs alone.
C14_MessagesContiguousInOwnOrder ==
    \A u \in UnitIds :
        /\ IsPrefix(UnitMsgs(u), Alone(u))
        /\ ~threaded =>
               \A i, j \in 1 .. Len(channel) :
                   (i < j /\ channel[i].unit = u /\ channel[j].unit = u)
                       => \A k \in i .. j : channel[k].unit = u

\* On the cooperative scheduler both units ran to their end, the second
\* one first: its four messages, then the four of the first.
C14_Witness ==
    /\ ~threaded
    /\ units # << >>
    /\ UnitDone(1) /\ UnitDone(2)
    /\ Len(channel) = 8
    /\ channel[1].unit = 2
    /\ channel[8].unit = 1

----------------------------------------------------------------------------
(* Pipeline claims, continued                                              *)

\* C21: a procedure called with an input that is no tile request never
\* fetches, runs no pipeline and sends no message, and what it returns is
\* IncompatibleInput.
C21_OtherInputReturnsIncompatibleInput ==
    input.kind # "TileRequest" =>
        /\ pc \in {"idle", "called", "done"}
        /\ fetched = FetchPending
        /\ invoked = << >>
        /\ chan = << >>
        /\ (pc = "called" => result = None)
        /\ (pc = "done" => result = "IncompatibleInput")

\* The procedure has returned on an input that is no tile request, in a
\* raster build whose channel would fail at the first send.
C21_Witness ==
    /\ pc = "done"
    /\ input = NoRequest
    /\ raster
    /\ sink = 1
    /\ result = "IncompatibleInput"

====
